---- MODULE Spec2Model ----
(***************************************************************************)
(* Text2PPT: outline synthesis (llm_client.py), background rendering       *)
(* (image_generator.py), deck assembly (ppt_generator.py) and the task     *)
(* service (web_server.py).                                                *)
(***************************************************************************)
EXTENDS Integers, Sequences, FiniteSets, TLC

\* ------------------------------------------------------------------ bounds
\* Largest slide count a request asks for, and longest array a response holds.
MaxSlides == 2
\* Number of generation requests the service accepts (one worker thread each).
MaxThreads == 2

\* --------------------------------------------------------------- JSON values
\* slide.get('slide_number', ...) on a record without that key.
Absent == 0

SlideNumbers == {Absent} \cup (1..MaxSlides)

\* "" is the empty prompt (falsy), "p" any non-empty prompt.
Prompts == {"", "p"}

\* A file path is <<name prefix, slide number, extension>>; NoPath is None.
NoPath == <<"", 0, "">>

\* A title or content string is <<label, position, text>>; NoText is ''.
NoText == <<"", 0, "">>

\* One element of a parsed array. dict = FALSE is an element that is not a
\* JSON object (a string, a number, a nested list): it has no .get.
SlideDict(num, ttl, cnt, prm) ==
  [dict |-> TRUE, slide_number |-> num, title |-> ttl, content |-> cnt,
   image_prompt |-> prm, image_path |-> NoPath]

NonDict ==
  [dict |-> FALSE, slide_number |-> Absent, title |-> NoText, content |-> NoText,
   image_prompt |-> "", image_path |-> NoPath]

\* The slide object the language model wrote at position k of its array.
LLMSlide(k, num, prm) == SlideDict(num, <<"T", k, "">>, <<"C", k, "">>, prm)

\* A value json.loads can return: an array, an object (iterating it yields its
\* keys, which are strings), or a scalar (a number or null: no len()).
JArray(items) == [kind |-> "array", items |-> items]
JObject == [kind |-> "object", items |-> <<NonDict>>]
JScalar == [kind |-> "scalar", items |-> << >>]

\* Lines of the response text that are no JSON value.
Garbage == [kind |-> "garbage", items |-> << >>]
FenceOpen == [kind |-> "fence_open", items |-> << >>]
FenceClose == [kind |-> "fence_close", items |-> << >>]

IsJson(line) == line.kind \in {"array", "object", "scalar"}

\* ------------------------------------------------------------ llm_client.py
RECURSIVE SeqsUpTo(_, _)
SeqsUpTo(S, n) ==
  IF n = 0 THEN {<< >>}
  ELSE LET shorter == SeqsUpTo(S, n - 1)
       IN shorter \cup {Append(s, x) : s \in {t \in shorter : Len(t) = n - 1}, x \in S}

SubSeqFrom(s, a, b) == IF a > b THEN << >> ELSE SubSeq(s, a, b)

\* Lines 122-125: drop an enclosing code fence.
StripFence(lines) ==
  IF Len(lines) > 0 /\ lines[1].kind \in {"fence_open", "fence_close"}
  THEN IF lines[Len(lines)].kind = "fence_close"
       THEN SubSeqFrom(lines, 2, Len(lines) - 1)
       ELSE SubSeqFrom(lines, 2, Len(lines))
  ELSE lines

\* json.loads over the joined lines: one JSON value and nothing else parses.
JsonLoads(lines) ==
  IF Len(lines) = 1 /\ IsJson(lines[1])
  THEN [ok |-> TRUE, value |-> lines[1]]
  ELSE [ok |-> FALSE, value |-> Garbage]

\* range(num_slides) numbered from 0: "slide_number": i.
default_structure_from_zero(topic, num_slides) ==
  [i \in 1..num_slides |->
     SlideDict(i - 1, <<"Slide", i, "">>,
               IF i = 1 THEN <<"topic", 0, topic>> ELSE <<"Content for slide", i, "">>,
               "p")]

_create_default_structure(topic, num_slides) ==
  [i \in 1..num_slides |->
     SlideDict(i, <<"Slide", i, "">>,
               IF i = 1 THEN <<"topic", 0, topic>> ELSE <<"Content for slide", i, "">>,
               "p")]

\* The call wrapped in a handler that falls back to the default structure.
structure_default_on_error(user_input, num_slides, completion) ==
  LET parsed == JsonLoads(StripFence(completion.lines))
  IN IF ~completion.raised /\ parsed.ok
     THEN [raised |-> FALSE, value |-> parsed.value]
     ELSE [raised |-> FALSE,
           value |-> JArray(_create_default_structure(user_input, num_slides))]

\* completion: [raised |-> TRUE] when chat.completions.create (or reading the
\* message content) raises, else the response text as lines.
generate_ppt_structure(user_input, num_slides, completion) ==
  IF completion.raised
  THEN [raised |-> TRUE, value |-> Garbage]
  ELSE LET parsed == JsonLoads(StripFence(completion.lines))
       IN IF parsed.ok
          THEN [raised |-> FALSE, value |-> parsed.value]
          ELSE [raised |-> FALSE,
                value |-> JArray(_create_default_structure(user_input, num_slides))]

\* ------------------------------------------------------- image_generator.py
\* The outcome of a call: it raised, or it returned path (NoPath is None).
\* calls lists the external calls made, in order.
Ret(path, calls) == [raised |-> FALSE, path |-> path, calls |-> calls]
Raised(calls) == [raised |-> TRUE, path |-> NoPath, calls |-> calls]

\* try: body / except Exception: return None
ExceptNone(body) == IF body.raised THEN Ret(NoPath, body.calls) ELSE body

\* What the outside world does during one generate_image call.
\*   primary : images.generate / parse raises, or the first datum carries
\*             b64_json, or only a url, or there is nothing usable
\*   fallback: requests.post raises, answers a non-200 status, or answers 200
\*             with a base64 field, only a url field, or neither
\*   payload : the base64 text decodes to bytes that start with FF D8 FF
\*             ("jpeg"), decodes to other bytes, or does not decode
\*   write_ok: open()/write() of the image file succeeds
\*   download: requests.get answers a png content type, another content
\*             type, or raises (transport error, raise_for_status)
PrimaryOutcomes == {"raise", "b64", "url", "nodata"}
FallbackOutcomes == {"raise", "non200", "b64", "url", "nodata"}
PayloadKinds == {"jpeg", "other", "invalid"}
DownloadOutcomes == {"png", "other", "raise"}

ImageEnvs ==
  [primary : PrimaryOutcomes, fallback : FallbackOutcomes, payload : PayloadKinds,
   write_ok : BOOLEAN, download : DownloadOutcomes]

ImagePath(stem, ext) == <<stem[1], stem[2], ext>>

_save_base64_image(env, stem) ==
  ExceptNone(
    IF env.payload = "invalid" THEN Raised(<<"b64decode">>)
    ELSE LET ext == IF env.payload = "jpeg" THEN "jpg" ELSE "png"
         IN IF env.write_ok
            THEN Ret(ImagePath(stem, ext), <<"b64decode", "write">>)
            ELSE Raised(<<"b64decode", "write">>))

_download_and_save_image(env, stem) ==
  ExceptNone(
    IF env.download = "raise" THEN Raised(<<"get">>)
    ELSE LET ext == IF env.download = "png" THEN "png" ELSE "jpg"
         IN IF env.write_ok
            THEN Ret(ImagePath(stem, ext), <<"get", "write">>)
            ELSE Raised(<<"get", "write">>))

\* r ran after the calls in before.
After(before, r) == [r EXCEPT !.calls = before \o r.calls]

\* The raw call without its try/except.
raw_api_unguarded(env, stem) ==
  IF env.fallback = "raise" THEN Raised(<<"fallback">>)
  ELSE IF env.fallback = "b64"
    THEN After(<<"fallback">>, _save_base64_image(env, stem))
  ELSE IF env.fallback = "url"
    THEN After(<<"fallback">>, _download_and_save_image(env, stem))
  ELSE Ret(NoPath, <<"fallback">>)

_generate_image_raw_api(env, stem) ==
  ExceptNone(
    IF env.fallback = "raise" THEN Raised(<<"fallback">>)
    ELSE IF env.fallback = "b64"
      THEN After(<<"fallback">>, _save_base64_image(env, stem))
    ELSE IF env.fallback = "url"
      THEN After(<<"fallback">>, _download_and_save_image(env, stem))
    ELSE Ret(NoPath, <<"fallback">>))

\* The raw call tried whenever the primary path gave no image.
generate_image_retry_on_none(env, stem) ==
  LET try ==
        IF env.primary = "raise" THEN Raised(<<"primary">>)
        ELSE IF env.primary = "b64"
          THEN After(<<"primary">>, _save_base64_image(env, stem))
        ELSE IF env.primary = "url"
          THEN After(<<"primary">>, _download_and_save_image(env, stem))
        ELSE Ret(NoPath, <<"primary">>)
  IN IF try.raised \/ try.path = NoPath
     THEN After(try.calls, _generate_image_raw_api(env, stem))
     ELSE try

generate_image(env, stem) ==
  LET try ==
        IF env.primary = "raise" THEN Raised(<<"primary">>)
        ELSE IF env.primary = "b64"
          THEN After(<<"primary">>, _save_base64_image(env, stem))
        ELSE IF env.primary = "url"
          THEN After(<<"primary">>, _download_and_save_image(env, stem))
        ELSE Ret(NoPath, <<"primary">>)
  IN IF try.raised
     THEN After(try.calls, _generate_image_raw_api(env, stem))
     ELSE try

\* How many times call c occurs in a call list.
Count(calls, c) == Cardinality({i \in 1..Len(calls) : calls[i] = c})

\* --------------------------------------------------------- ppt_generator.py
\* slides_data=None
NoData == [kind |-> "none", items |-> << >>]

\* The empty dict {} of line 69.
EmptyDict == SlideDict(Absent, NoText, NoText, "")

\* Python truth value of slides_data: None, [] and {} are falsy.
Truthy(slides_data) ==
  slides_data.kind \in {"array", "object"} /\ Len(slides_data.items) > 0

\* Line 69 for the image at position pos (pos = i + 1).
HasInfo(slides_data, pos) == Truthy(slides_data) /\ pos <= Len(slides_data.items)

slide_info(slides_data, pos) ==
  IF HasInfo(slides_data, pos) THEN slides_data.items[pos] ELSE EmptyDict

\* Lines 69-72 raise: indexing a dict by position (KeyError), or .get on an
\* element that is not a dict (AttributeError).
InfoRaises(slides_data, pos) ==
  HasInfo(slides_data, pos)
    /\ (slides_data.kind = "object" \/ ~slides_data.items[pos].dict)

\* slide_info.get('slide_number', i) in place of i + 1.
slide_num_zero_based(slides_data, pos) ==
  LET info == slide_info(slides_data, pos)
  IN IF info.slide_number = Absent THEN pos - 1 ELSE info.slide_number

\* Line 72.
slide_num(slides_data, pos) ==
  LET info == slide_info(slides_data, pos)
  IN IF info.slide_number = Absent THEN pos ELSE info.slide_number

\* Lines 75-83: which text overlay the slide gets.
Layout(slides_data, pos) ==
  IF slide_num(slides_data, pos) = 1 THEN "cover"
  ELSE IF Truthy(slides_data)
          /\ slide_num(slides_data, pos) = Len(slides_data.items)
    THEN "ending"
  ELSE "content"

DeckSlide(image_paths, slides_data, pos) ==
  [bg |-> image_paths[pos],
   layout |-> Layout(slides_data, pos),
   title |-> slide_info(slides_data, pos).title,
   content |-> slide_info(slides_data, pos).content]

\* The loop without the os.path.exists test.
present_unchecked(image_paths, exists) == [p \in 1..Len(image_paths) |-> p]

\* Positions of image_paths whose file exists (lines 51-54), in order.
Present(image_paths, exists) ==
  SelectSeq([p \in 1..Len(image_paths) |-> p], LAMBDA p : image_paths[p] \in exists)

PptPath(output_filename) == <<output_filename, 0, "pptx">>

\* exists: the files on disk; writer_ok: python-pptx builds and saves the file.
create_ppt_from_images(image_paths, output_filename, slides_data, exists, writer_ok) ==
  LET present == Present(image_paths, exists)
      deck == [j \in 1..Len(present) |-> DeckSlide(image_paths, slides_data, present[j])]
  IN IF (\E j \in 1..Len(present) : InfoRaises(slides_data, present[j])) \/ ~writer_ok
     THEN [raised |-> TRUE, path |-> NoPath, deck |-> << >>]
     ELSE [raised |-> FALSE, path |-> PptPath(output_filename), deck |-> deck]


\* ------------------------------------------------ inputs of the single calls
\* A parsed array of up to MaxSlides slide objects, with any slide numbers and
\* prompts.
Arrays ==
  {JArray([k \in 1..Len(np) |-> LLMSlide(k, np[k][1], np[k][2])]) :
     np \in SeqsUpTo(SlideNumbers \X Prompts, MaxSlides)}

\* The response text: an optional opening fence line, at most one JSON value or
\* other text, an optional closing line.
ResponseLines ==
  {pre \o body \o post :
     pre \in {<< >>, <<FenceOpen>>, <<FenceClose>>},
     body \in {<< >>, <<Garbage>>, <<JObject>>, <<JScalar>>} \cup {<<a>> : a \in Arrays},
     post \in {<< >>, <<FenceClose>>, <<Garbage>>}}

AllCompletions ==
  {[raised |-> TRUE, lines |-> << >>]}
    \cup {[raised |-> FALSE, lines |-> l] : l \in ResponseLines}

OutlineIdle ==
  [pc |-> "idle", user_input |-> "", num_slides |-> 0,
   completion |-> [raised |-> FALSE, lines |-> << >>], value |-> Garbage]

Stems == {<<"ppt", 1>>, <<"t1", 2>>}

ImageIdle ==
  [pc |-> "idle",
   env |-> [primary |-> "nodata", fallback |-> "nodata", payload |-> "other",
            write_ok |-> TRUE, download |-> "png"],
   stem |-> <<"", 0>>, result |-> Ret(NoPath, << >>)]


\* The leading bytes of a decoded payload: FF, D8, and any other byte.
Bytes == {255, 216, 0}

\* Longest decoded prefix looked at.
MaxHead == 3

\* A base64 argument: with or without a "data:...;base64," prefix, decodable
\* or not, and the bytes it decodes to.
Payloads == [data_url : BOOLEAN, decodable : BOOLEAN, bytes : SeqsUpTo(Bytes, MaxHead)]

\* Only the first two bytes are compared.
is_jpeg_two_bytes(bytes) == Len(bytes) >= 2 /\ SubSeq(bytes, 1, 2) = <<255, 216>>

\* Lines 153-155: image_bytes[:3] == b'\xff\xd8\xff'.
IsJpeg(bytes) == Len(bytes) >= 3 /\ SubSeq(bytes, 1, 3) = <<255, 216, 255>>

\* The text before the comma of a data URL ("data:image/png;base64"): not the
\* image, and not valid base64.
UrlPrefix == [decodable |-> FALSE, bytes |-> << >>]

\* b64_data.split(','): the argument cut at its commas.
Segments(payload) ==
  LET body == [decodable |-> payload.decodable, bytes |-> payload.bytes]
  IN IF payload.data_url THEN <<UrlPrefix, body>> ELSE <<body>>

\* Lines 146-148: if ',' in b64_data: b64_data = b64_data.split(',')[1]
Base64Part(payload) ==
  IF Len(Segments(payload)) > 1 THEN Segments(payload)[2] ELSE Segments(payload)[1]

\* Lines 150-155: what b64decode and the signature test make of the payload.
PayloadKind(payload) ==
  LET b64 == Base64Part(payload)
  IN IF ~b64.decodable THEN "invalid"
     ELSE IF IsJpeg(b64.bytes) THEN "jpeg"
     ELSE "other"

SaveIdle ==
  [pc |-> "idle",
   payload |-> [data_url |-> FALSE, decodable |-> FALSE, bytes |-> << >>],
   write_ok |-> TRUE, stem |-> <<"", 0>>, result |-> Ret(NoPath, << >>)]

\* Most image paths handed to one create_ppt_from_images call.
MaxImages == 3

ImageList(k) == [j \in 1..k |-> <<"ppt", j, "png">>]
ImageFiles(k) == {ImageList(k)[j] : j \in 1..k}

DeckData == {NoData, JObject} \cup Arrays

DeckIdle ==
  [pc |-> "idle", image_paths |-> << >>, exists |-> {}, slides_data |-> NoData,
   writer_ok |-> TRUE,
   result |-> [raised |-> FALSE, path |-> NoPath, deck |-> << >>]]

\* ------------------------------------------------------------ web_server.py
VARIABLES
  tasks,    \* the task table: task id -> TaskRecord (NoTask: key not present)
  threads,  \* one entry per worker thread started by generate()
  decks,    \* the output directory: task id -> the deck file written for it
  http,     \* the response of the latest request handler
  ol,       \* one call of LLMClient.generate_ppt_structure
  ig,       \* one call of ImageGenerator.generate_image
  dk,       \* one call of PPTGenerator.create_ppt_from_images
  sv,       \* one call of ImageGenerator._save_base64_image
  pl        \* one run of the three stages, outline to deck

\* uuid4()[:8]: generate() draws the id and does not look it up in tasks.
TaskIds == {"t1", "t2"}

ThreadIds == 1..MaxThreads

NoResult == [ppt_path |-> NoPath, slides_count |-> 0]

NoTask ==
  [status |-> "absent", slides_count |-> 0, has_result |-> FALSE,
   result |-> NoResult, has_error |-> FALSE, error |-> ""]

\* Lines 115-126: the record generate() stores.
PendingTask ==
  [status |-> "pending", slides_count |-> 0, has_result |-> FALSE,
   result |-> NoResult, has_error |-> FALSE, error |-> ""]

NoDeck == [exists |-> FALSE, slides |-> << >>]

\* A thread that has not been started.
Unborn ==
  [pc |-> "unborn", task_id |-> "", num_slides |-> 0, slides |-> NoData, i |-> 0,
   image_paths |-> << >>, calls |-> << >>, primary_raised |-> FALSE,
   llm_raised |-> FALSE, exc |-> "", ppt_path |-> NoPath]

\* threading.Thread(target=generate_ppt_task, args=(task_id, text, num_slides, ...))
Started(task_id, num_slides) ==
  [Unborn EXCEPT !.pc = "start", !.task_id = task_id, !.num_slides = num_slides]

\* The request texts: blank, and a topic.
Texts == {"", "T"}

\* What the language model does in the service runs: the call raises, the text
\* is no JSON, or it is a JSON array of n slides, or a JSON object.
Completions(n) ==
  {[raised |-> TRUE, lines |-> << >>]}
    \cup {[raised |-> FALSE, lines |-> l] :
            l \in {<<Garbage>>, <<JObject>>,
                   <<JArray([k \in 1..n |-> LLMSlide(k, k, "p")])>>}}

\* What the image model does in the service runs.
RenderEnvs ==
  {e \in ImageEnvs :
     /\ e.payload = "other" /\ e.write_ok /\ e.download = "png"
     /\ \/ e.primary = "b64" /\ e.fallback = "raise"
        \/ e.primary = "raise" /\ e.fallback \in {"b64", "non200"}}

\* No handler: the exception ends the thread.
except_unhandled(th, cause) ==
  [th EXCEPT !.pc = "done", !.exc = cause, !.calls = << >>, !.primary_raised = FALSE]

\* An exception reaches line 90: the handler runs next; cause is str(e).
Except(th, cause) ==
  [th EXCEPT !.pc = "except", !.exc = cause, !.calls = << >>, !.primary_raised = FALSE]

\* Lines 39-42 after the language model answered completion.
Outline(th, completion) ==
  LET r == generate_ppt_structure("T", th.num_slides, completion)
      seen == [th EXCEPT !.llm_raised = completion.raised]
  IN IF r.raised THEN Except(seen, "llm")
     ELSE IF r.value.kind = "scalar" THEN Except(seen, "len")
     ELSE [seen EXCEPT !.pc = "render", !.slides = r.value, !.i = 0]

\* f"{task_id}_slide_{slide_num:02d}"
Stem(prefix, slide, pos) ==
  <<prefix, IF slide.slide_number = Absent THEN pos ELSE slide.slide_number>>

\* The path is attached and the prompt is overwritten by the prompt sent.
attach_path_and_prompt(slide, path) ==
  [slide EXCEPT !.image_path = path, !.image_prompt = "sent"]

\* slide['image_path'] = image_path
AttachPath(slide, path) == [slide EXCEPT !.image_path = path]

\* Lines 50-66 for the slide at position th.i + 1.
RenderSlide(th, env) ==
  LET pos == th.i + 1
      slide == th.slides.items[pos]
      r == generate_image(env, Stem(th.task_id, slide, pos))
  IN IF ~slide.dict THEN Except(th, "get")
     ELSE IF slide.image_prompt = ""
       THEN [th EXCEPT !.i = pos, !.calls = << >>, !.primary_raised = FALSE]
     ELSE IF r.raised THEN Except(th, "image")
     ELSE IF r.path = NoPath
       THEN [th EXCEPT !.i = pos, !.calls = r.calls,
                       !.primary_raised = (env.primary = "raise")]
     ELSE [th EXCEPT !.i = pos, !.calls = r.calls,
                     !.primary_raised = (env.primary = "raise"),
                     !.image_paths = Append(@, r.path),
                     !.slides.items[pos] = AttachPath(@, r.path)]

\* The files generate_image wrote are on disk when the deck is assembled.
Written(th) == {th.image_paths[j] : j \in 1..Len(th.image_paths)}

\* Lines 83-88.
Result(th) ==
  [ppt_path |-> th.ppt_path, slides_count |-> Len(th.slides.items)]

\* No run of the three stages has begun.
PipeIdle ==
  [mode |-> "", style |-> "", th |-> Unborn, outline |-> NoData,
   attempts |-> << >>, log |-> << >>, deck |-> << >>]

NoResponse == [op |-> "", code |-> 0, status |-> "", payload |-> FALSE]

Response(op, code) == [NoResponse EXCEPT !.op = op, !.code = code]

Init ==
  /\ tasks = [id \in TaskIds |-> NoTask]
  /\ threads = [t \in ThreadIds |-> Unborn]
  /\ decks = [id \in TaskIds |-> NoDeck]
  /\ http = NoResponse
  /\ ol = OutlineIdle
  /\ ig = ImageIdle
  /\ dk = DeckIdle
  /\ sv = SaveIdle
  /\ pl = PipeIdle

vars == <<tasks, threads, decks, http, ol, ig, dk, sv, pl>>

service == <<tasks, threads, decks, http>>

\* POST /api/generate, lines 102-135.
generate(text, num_slides, task_id) ==
  IF text = ""
  THEN /\ http' = Response("generate", 400)
       /\ UNCHANGED <<tasks, threads, decks>>
  ELSE /\ \E t \in ThreadIds :
            /\ threads[t].pc = "unborn"
            /\ \A u \in ThreadIds : u < t => threads[u].pc # "unborn"
            /\ threads' = [threads EXCEPT ![t] = Started(task_id, num_slides)]
       /\ tasks' = [tasks EXCEPT ![task_id] = PendingTask]
       /\ http' = Response("generate", 200)
       /\ UNCHANGED decks

\* Line 33.
SetProcessing(t) ==
  /\ threads[t].pc = "start"
  /\ tasks' = [tasks EXCEPT ![threads[t].task_id].status = "processing"]
  /\ threads' = [threads EXCEPT ![t].pc = "llm"]
  /\ UNCHANGED <<decks, http, ol, ig, dk, sv, pl>>

\* Lines 38-42.
CallLLM(t) ==
  /\ threads[t].pc = "llm"
  /\ \E c \in Completions(threads[t].num_slides) :
       LET th == Outline(threads[t], c)
       IN /\ threads' = [threads EXCEPT ![t] = th]
          /\ tasks' = IF th.pc = "render"
                      THEN [tasks EXCEPT ![th.task_id].slides_count = Len(th.slides.items)]
                      ELSE tasks
  /\ UNCHANGED <<decks, http, ol, ig, dk, sv, pl>>

\* Lines 50-66, one pass of the loop.
Render(t) ==
  /\ threads[t].pc = "render"
  /\ threads[t].i < Len(threads[t].slides.items)
  /\ \E env \in RenderEnvs : threads' = [threads EXCEPT ![t] = RenderSlide(threads[t], env)]
  /\ UNCHANGED <<tasks, decks, http, ol, ig, dk, sv, pl>>

\* Lines 71-73.
Assemble(t) ==
  /\ threads[t].pc = "render"
  /\ threads[t].i = Len(threads[t].slides.items)
  /\ \E writer_ok \in BOOLEAN :
       LET th == threads[t]
           r == create_ppt_from_images(th.image_paths, th.task_id, th.slides,
                                       Written(th), writer_ok)
       IN IF r.raised
          THEN /\ threads' = [threads EXCEPT ![t] = Except(th, "ppt")]
               /\ UNCHANGED decks
          ELSE /\ threads' = [threads EXCEPT ![t].pc = "set_completed",
                                             ![t].calls = << >>,
                                             ![t].primary_raised = FALSE,
                                             ![t].ppt_path = r.path]
               /\ decks' = [decks EXCEPT ![th.task_id] =
                              [exists |-> TRUE, slides |-> r.deck]]
  /\ UNCHANGED <<tasks, http, ol, ig, dk, sv, pl>>

\* Line 81.
SetCompleted(t) ==
  /\ threads[t].pc = "set_completed"
  /\ tasks' = [tasks EXCEPT ![threads[t].task_id].status = "completed"]
  /\ threads' = [threads EXCEPT ![t].pc = "set_result"]
  /\ UNCHANGED <<decks, http, ol, ig, dk, sv, pl>>

\* Lines 83-88.
SetResult(t) ==
  /\ threads[t].pc = "set_result"
  /\ tasks' = [tasks EXCEPT ![threads[t].task_id].has_result = TRUE,
                            ![threads[t].task_id].result = Result(threads[t])]
  /\ threads' = [threads EXCEPT ![t].pc = "done"]
  /\ UNCHANGED <<decks, http, ol, ig, dk, sv, pl>>

\* Line 91.
SetFailed(t) ==
  /\ threads[t].pc = "except"
  /\ tasks' = [tasks EXCEPT ![threads[t].task_id].status = "failed"]
  /\ threads' = [threads EXCEPT ![t].pc = "set_error"]
  /\ UNCHANGED <<decks, http, ol, ig, dk, sv, pl>>

\* Line 92.
SetError(t) ==
  /\ threads[t].pc = "set_error"
  /\ tasks' = [tasks EXCEPT ![threads[t].task_id].has_error = TRUE,
                            ![threads[t].task_id].error = threads[t].exc]
  /\ threads' = [threads EXCEPT ![t].pc = "done"]
  /\ UNCHANGED <<decks, http, ol, ig, dk, sv, pl>>

Worker(t) ==
  \/ SetProcessing(t)
  \/ CallLLM(t)
  \/ Render(t)
  \/ Assemble(t)
  \/ SetCompleted(t)
  \/ SetResult(t)
  \/ SetFailed(t)
  \/ SetError(t)

\* A request with the given text arrives.
Submit(text) ==
  /\ \E n \in 1..MaxSlides, id \in TaskIds : generate(text, n, id)
  /\ UNCHANGED <<ol, ig, dk, sv, pl>>

\* The accepted requests and the threads they start.
Accept == Submit("T")

Next == Accept \/ \E t \in ThreadIds : Worker(t)

Spec == Init /\ [][Next]_vars

\* Every started thread keeps running: the interpreter schedules it, and every
\* external call it makes returns or raises.
FairSpec == Spec /\ \A t \in ThreadIds : WF_vars(Worker(t))

\* GET /api/status/<task_id>, lines 138-143: the record as it is now.
get_status(task_id) ==
  /\ http' = IF tasks[task_id].status = "absent"
             THEN Response("status", 404)
             ELSE [op |-> "status", code |-> 200, status |-> tasks[task_id].status,
                   payload |-> IF tasks[task_id].status = "completed"
                                 THEN tasks[task_id].has_result
                               ELSE IF tasks[task_id].status = "failed"
                                 THEN tasks[task_id].has_error
                               ELSE FALSE]
  /\ UNCHANGED <<tasks, threads, decks, ol, ig, dk, sv, pl>>

\* GET /api/download/<task_id>, lines 146-164. task['result'] on a record
\* without that key raises KeyError, which the framework answers with 500.
download(task_id) ==
  /\ http' = IF tasks[task_id].status = "absent" THEN Response("download", 404)
             ELSE IF tasks[task_id].status # "completed" THEN Response("download", 400)
             ELSE IF ~tasks[task_id].has_result THEN Response("download", 500)
             ELSE IF ~decks[tasks[task_id].result.ppt_path[1]].exists
               THEN Response("download", 404)
             ELSE [op |-> "download", code |-> 200, status |-> "completed",
                   payload |-> TRUE]
  /\ UNCHANGED <<tasks, threads, decks, ol, ig, dk, sv, pl>>

Poll == \E id \in TaskIds : get_status(id) \/ download(id)

Reject == Submit("")

ApiNext == Next \/ Reject \/ Poll

SpecApi == Init /\ [][ApiNext]_vars

\* ------------------------------------------- the three stages, one call each
\* generate_ppt_structure is called with a topic, a slide count and whatever the
\* language model does.
OutlineCall ==
  /\ ol.pc = "idle"
  /\ \E user_input \in Texts \ {""}, n \in 1..MaxSlides, c \in AllCompletions :
       LET r == generate_ppt_structure(user_input, n, c)
       IN ol' = [pc |-> IF r.raised THEN "raised" ELSE "returned",
                 user_input |-> user_input, num_slides |-> n,
                 completion |-> c, value |-> r.value]
  /\ UNCHANGED <<service, ig, dk, sv, pl>>

OutlineReset ==
  /\ ol.pc # "idle"
  /\ ol' = OutlineIdle
  /\ UNCHANGED <<service, ig, dk, sv, pl>>

OutlineNext == OutlineCall \/ OutlineReset

SpecOutline == Init /\ [][OutlineNext]_vars

\* generate_image is called with a stem and whatever the image model, the
\* download and the file system do.
ImageCall ==
  /\ ig.pc = "idle"
  /\ \E env \in ImageEnvs, stem \in Stems :
       ig' = [pc |-> "done", env |-> env, stem |-> stem,
              result |-> generate_image(env, stem)]
  /\ UNCHANGED <<service, ol, dk, sv, pl>>

ImageReset ==
  /\ ig.pc # "idle"
  /\ ig' = ImageIdle
  /\ UNCHANGED <<service, ol, dk, sv, pl>>

ImageNext == ImageCall \/ ImageReset

SpecImage == Init /\ [][ImageNext]_vars

\* create_ppt_from_images is called with k image paths, of which some exist,
\* and with slides_data or without.
DeckCall ==
  /\ dk.pc = "idle"
  /\ \E k \in 0..MaxImages, slides_data \in DeckData, writer_ok \in BOOLEAN :
       \E exists \in SUBSET ImageFiles(k) :
         dk' = [pc |-> "done", image_paths |-> ImageList(k), exists |-> exists,
                slides_data |-> slides_data, writer_ok |-> writer_ok,
                result |-> create_ppt_from_images(ImageList(k), "ppt", slides_data,
                                                  exists, writer_ok)]
  /\ UNCHANGED <<service, ol, ig, sv, pl>>

DeckReset ==
  /\ dk.pc # "idle"
  /\ dk' = DeckIdle
  /\ UNCHANGED <<service, ol, ig, sv, pl>>

DeckNext == DeckCall \/ DeckReset

SpecDeck == Init /\ [][DeckNext]_vars

\* _save_base64_image sees the payload through what b64decode and the
\* signature test make of it.
SaveEnv(payload, write_ok) ==
  [primary |-> "b64", fallback |-> "raise", payload |-> PayloadKind(payload),
   write_ok |-> write_ok, download |-> "png"]

\* _save_base64_image is called with a payload and a stem.
SaveCall ==
  /\ sv.pc = "idle"
  /\ \E payload \in Payloads, write_ok \in BOOLEAN, stem \in Stems :
       sv' = [pc |-> "done", payload |-> payload, write_ok |-> write_ok,
              stem |-> stem,
              result |-> _save_base64_image(SaveEnv(payload, write_ok), stem)]
  /\ UNCHANGED <<service, ol, ig, dk, pl>>

SaveReset ==
  /\ sv.pc # "idle"
  /\ sv' = SaveIdle
  /\ UNCHANGED <<service, ol, ig, dk, pl>>

SaveNext == SaveCall \/ SaveReset

SpecSave == Init /\ [][SaveNext]_vars

\* ------------------------------------------- one run of the three stages
\* Longest outline of a run.
MaxOutline == 3

\* "service": generate_ppt_task; "cli": create_ppt_from_text.
Modes == {"service", "cli"}

\* The style of a request: none, or a style name.
Styles == {"", "s"}

\* if style: prompt = f"{prompt}, {style} design style" -- a local variable.
StyledPrompt(prompt, style) ==
  IF style # "" THEN prompt \o ", " \o style \o " design style" ELSE prompt

\* Outlines of up to MaxOutline slide objects with any slide numbers and prompts.
PipeArrays ==
  {JArray([k \in 1..Len(np) |-> LLMSlide(k, np[k][1], np[k][2])]) :
     np \in SeqsUpTo(({Absent} \cup (1..MaxOutline)) \X Prompts, MaxOutline)}

PipeCompletions ==
  {[raised |-> TRUE, lines |-> << >>]}
    \cup {[raised |-> FALSE, lines |-> l] :
            l \in {<<Garbage>>, <<JObject>>} \cup {<<a>> : a \in PipeArrays}}

\* create_ppt_from_text has no handler: the exception leaves the function.
Propagate(th, cause) ==
  [th EXCEPT !.pc = "raised", !.exc = cause, !.calls = << >>, !.primary_raised = FALSE]

\* main.py lines 70-76 (verbose): the outline, its len() and .get on each item.
BatchOutline(th, completion) ==
  LET r == generate_ppt_structure("T", th.num_slides, completion)
      seen == [th EXCEPT !.llm_raised = completion.raised]
  IN IF r.raised THEN Propagate(seen, "llm")
     ELSE IF r.value.kind = "scalar" THEN Propagate(seen, "len")
     ELSE IF \E k \in 1..Len(r.value.items) : ~r.value.items[k].dict
       THEN Propagate(seen, "get")
     ELSE [seen EXCEPT !.pc = "render", !.slides = r.value, !.i = 0]

\* The loop breaks at the first slide without a prompt or without an image.
batch_slide_stops_on_failure(th, env) ==
  LET pos == th.i + 1
      slide == th.slides.items[pos]
      r == generate_image(env, Stem(th.task_id, slide, pos))
  IN IF ~slide.dict THEN Propagate(th, "get")
     ELSE IF slide.image_prompt = "" \/ r.raised \/ r.path = NoPath
       THEN [th EXCEPT !.i = Len(th.slides.items), !.calls = << >>,
                       !.primary_raised = FALSE]
     ELSE [th EXCEPT !.i = pos, !.calls = r.calls,
                     !.primary_raised = (env.primary = "raise"),
                     !.image_paths = Append(@, r.path),
                     !.slides.items[pos] = AttachPath(@, r.path)]

\* generate_slides_images, lines 181-196, for the slide at position th.i + 1.
BatchSlide(th, env) ==
  LET pos == th.i + 1
      slide == th.slides.items[pos]
      r == generate_image(env, Stem(th.task_id, slide, pos))
  IN IF ~slide.dict THEN Propagate(th, "get")
     ELSE IF slide.image_prompt = ""
       THEN [th EXCEPT !.i = pos, !.calls = << >>, !.primary_raised = FALSE]
     ELSE IF r.raised THEN Propagate(th, "image")
     ELSE IF r.path = NoPath
       THEN [th EXCEPT !.i = pos, !.calls = r.calls,
                       !.primary_raised = (env.primary = "raise")]
     ELSE [th EXCEPT !.i = pos, !.calls = r.calls,
                     !.primary_raised = (env.primary = "raise"),
                     !.image_paths = Append(@, r.path),
                     !.slides.items[pos] = AttachPath(@, r.path)]

\* The loop is left one slide early.
loop_done_early(th) == th.i + 1 >= Len(th.slides.items)

\* for i, slide in enumerate(slides): the loop ends after the last element.
LoopDone(th) == th.i = Len(th.slides.items)

\* Stage 1: the outline call, made and returned.
PipeOutline ==
  /\ pl.th.pc = "unborn"
  /\ \E mode \in Modes, style \in Styles, n \in 1..MaxSlides, c \in PipeCompletions :
       LET th0 == Started(IF mode = "service" THEN "t1" ELSE "ppt", n)
           th == IF mode = "service" THEN Outline(th0, c) ELSE BatchOutline(th0, c)
       IN /\ mode = "cli" => style = ""
          /\ pl' = [PipeIdle EXCEPT !.mode = mode, !.style = style, !.th = th,
                                    !.outline = th.slides,
                                    !.log = <<[stage |-> "outline", pos |-> 0,
                                               number |-> 0, calls |-> << >>]>>]
  /\ UNCHANGED <<service, ol, ig, dk, sv>>

\* Stage 2, one pass of the loop: the slide at position th.i + 1 and every
\* image-model call made for it.
PipeRender ==
  /\ pl.th.pc = "render"
  /\ ~LoopDone(pl.th)
  /\ \E env \in RenderEnvs :
       LET pos == pl.th.i + 1
           slide == pl.th.slides.items[pos]
           th == IF pl.mode = "service" THEN RenderSlide(pl.th, env)
                 ELSE BatchSlide(pl.th, env)
           called == slide.dict /\ slide.image_prompt # ""
           r == generate_image(env, Stem(pl.th.task_id, slide, pos))
       IN pl' = [pl EXCEPT
                   !.th = th,
                   !.attempts = Append(@,
                     [called |-> called,
                      sent |-> IF called THEN StyledPrompt(slide.image_prompt, pl.style)
                               ELSE "",
                      path |-> IF called THEN r.path ELSE NoPath]),
                   !.log = IF called
                           THEN Append(@, [stage |-> "render", pos |-> pos,
                                           number |-> Stem(pl.th.task_id, slide, pos)[2],
                                           calls |-> r.calls])
                           ELSE @]
  /\ UNCHANGED <<service, ol, ig, dk, sv>>

\* Stage 3: create_ppt_from_images with the paths collected and the outline.
PipeAssemble ==
  /\ pl.th.pc = "render"
  /\ LoopDone(pl.th)
  /\ \E writer_ok \in BOOLEAN :
       LET th == pl.th
           r == create_ppt_from_images(th.image_paths, th.task_id, th.slides,
                                       Written(th), writer_ok)
           entry == [stage |-> "assemble", pos |-> 0, number |-> 0, calls |-> << >>]
       IN IF r.raised
          THEN pl' = [pl EXCEPT !.th = IF pl.mode = "service" THEN Except(th, "ppt")
                                       ELSE Propagate(th, "ppt"),
                                !.log = Append(@, entry)]
          ELSE pl' = [pl EXCEPT !.th.pc = "assembled", !.th.calls = << >>,
                                !.th.primary_raised = FALSE, !.th.ppt_path = r.path,
                                !.deck = r.deck,
                                !.log = Append(@, entry)]
  /\ UNCHANGED <<service, ol, ig, dk, sv>>

PipeReset ==
  /\ pl.th.pc \notin {"unborn", "render"}
  /\ pl' = PipeIdle
  /\ UNCHANGED <<service, ol, ig, dk, sv>>

PipeNext == PipeOutline \/ PipeRender \/ PipeAssemble \/ PipeReset

SpecPipe == Init /\ [][PipeNext]_vars

\* ==================================================================== claims
\* The response text, after fence stripping, is no single JSON value.
Malformed(c) == ~c.raised /\ ~JsonLoads(StripFence(c.lines)).ok

\* C1: for every requested slide count n >= 1, a response text that cannot be
\* parsed as JSON makes generate_ppt_structure return exactly n slide records
\* numbered 1..n in order; slide 1 carries the topic text as content, every
\* other slide a generic placeholder.
C1_PlaceholderOnMalformed ==
  (ol.pc # "idle" /\ Malformed(ol.completion)) =>
    /\ ol.pc = "returned"
    /\ ol.value.kind = "array"
    /\ Len(ol.value.items) = ol.num_slides
    /\ \A i \in 1..ol.num_slides :
         /\ ol.value.items[i].dict
         /\ ol.value.items[i].slide_number = i
         /\ ol.value.items[i].content =
              IF i = 1 THEN <<"topic", 0, ol.user_input>>
              ELSE <<"Content for slide", i, "">>

\* A fenced response whose body is no JSON, with the largest slide count.
C1_Witness ==
  /\ ol.pc = "returned"
  /\ ol.completion.lines = <<FenceOpen, Garbage, FenceClose>>
  /\ ol.num_slides = MaxSlides
  /\ Len(ol.value.items) = MaxSlides

\* C2: whatever the language model answers, the sequence handed downstream is
\* an array of exactly the requested length whose slide_number values equal
\* the array positions.
C2_AlwaysFullLength ==
  ol.pc = "returned" =>
    /\ ol.value.kind = "array"
    /\ Len(ol.value.items) = ol.num_slides
    /\ \A i \in 1..Len(ol.value.items) :
         ol.value.items[i].dict /\ ol.value.items[i].slide_number = i

\* C3: the raw-HTTP fallback is attempted exactly once when the primary
\* transport raised, and not at all when it did not.
C3_FallbackExactlyOnce ==
  ig.pc = "done" =>
    /\ Count(ig.result.calls, "primary") = 1
    /\ Count(ig.result.calls, "fallback") = IF ig.env.primary = "raise" THEN 1 ELSE 0
    /\ ig.env.primary = "raise" => SubSeq(ig.result.calls, 1, 2) = <<"primary", "fallback">>

\* The primary transport raised and the fallback, tried once, raised too.
C3_Witness ==
  /\ ig.pc = "done"
  /\ ig.env.primary = "raise"
  /\ ig.env.fallback = "raise"
  /\ ig.result.calls = <<"primary", "fallback">>
  /\ ig.result.path = NoPath

\* C4: generate_image never raises: whatever the primary call, the fallback
\* call, the download and the file write do, it returns a saved file path
\* (the stem plus an extension) or no path.
C4_NeverRaises ==
  ig.pc = "done" =>
    /\ ~ig.result.raised
    /\ ig.result.path \in {NoPath, ImagePath(ig.stem, "png"), ImagePath(ig.stem, "jpg")}

\* Primary raised, the fallback answered a url, and the download raised.
C4_Witness ==
  /\ ig.pc = "done"
  /\ ig.env.primary = "raise"
  /\ ig.env.fallback = "url"
  /\ ig.env.download = "raise"
  /\ ~ig.result.raised
  /\ ig.result.path = NoPath

\* create_ppt_from_images(image_paths, name) with every image on disk and the
\* presentation library working.
NoContextCall ==
  /\ dk.pc = "done"
  /\ dk.slides_data = NoData
  /\ dk.exists = ImageFiles(Len(dk.image_paths))
  /\ dk.writer_ok

\* C6 as stated: without slides_data every slide, the first included, gets the
\* Content layout and the call does not raise.
C6_AllContent ==
  NoContextCall =>
    /\ ~dk.result.raised
    /\ Len(dk.result.deck) = Len(dk.image_paths)
    /\ \A j \in 1..Len(dk.result.deck) : dk.result.deck[j].layout = "content"

\* C6 amended: without slides_data the call does not raise, the first slide
\* gets the Cover layout and every other slide the Content layout (never the
\* Closing layout).
C6_CoverThenContent ==
  NoContextCall =>
    /\ ~dk.result.raised
    /\ Len(dk.result.deck) = Len(dk.image_paths)
    /\ \A j \in 1..Len(dk.result.deck) :
         /\ dk.result.deck[j].bg = dk.image_paths[j]
         /\ dk.result.deck[j].layout = IF j = 1 THEN "cover" ELSE "content"

\* MaxImages images and no slides_data.
C6_Witness ==
  /\ NoContextCall
  /\ Len(dk.image_paths) = MaxImages
  /\ Len(dk.result.deck) = MaxImages
  /\ dk.result.deck[MaxImages].layout = "content"

Terminal == {"completed", "failed"}

\* The record a started thread writes to.
RecordOf(t) == IF threads[t].pc = "unborn" THEN NoTask ELSE tasks[threads[t].task_id]

\* C5: a task that completed reports as its slide count the number of slides
\* actually in the deck written for it, also when some images failed to render.
C5_ReportedCountIsDeckSize ==
  \A t \in ThreadIds :
    (threads[t].pc = "done" /\ threads[t].exc = ""
       /\ tasks[threads[t].task_id].has_result
       /\ tasks[threads[t].task_id].result.ppt_path = threads[t].ppt_path
       /\ \A u \in ThreadIds \ {t} : threads[u].pc = "unborn")
      => tasks[threads[t].task_id].result.slides_count
           = Len(decks[threads[t].task_id].slides)

\* C7: a record that is Completed or Failed never changes status again, a
\* record is Pending only before it is Processing, and no step leads from
\* Processing back or from Pending straight to a terminal status.
C7_StatusOnlyAdvances ==
  [][\A id \in TaskIds :
       /\ tasks[id].status \in Terminal => tasks'[id].status = tasks[id].status
       /\ tasks[id].status = "processing"
            => tasks'[id].status \in {"processing"} \cup Terminal
       /\ tasks[id].status = "pending"
            => tasks'[id].status \in {"pending", "processing"}]_vars

\* C8: whenever a record is Completed it holds its result, and whenever it is
\* Failed it holds its error message; no status or download request sees one
\* without the other.
C8_TerminalHasPayload ==
  /\ \A id \in TaskIds :
       /\ tasks[id].status = "completed" => tasks[id].has_result
       /\ tasks[id].status = "failed" => tasks[id].has_error
  /\ http.op = "status" /\ http.status \in Terminal => http.payload
  /\ http.op = "download" => http.code # 500

\* C9 as stated: no exception of a model call becomes a hard failure; after the
\* language-model call raised the thread goes on with slides to render.
C9_ModelErrorsRecovered ==
  \A t \in ThreadIds :
    /\ threads[t].llm_raised => threads[t].exc = ""
    /\ threads[t].primary_raised => Count(threads[t].calls, "fallback") = 1

\* C9 amended: an exception of the image-model call is recovered by the
\* fallback transport, tried once; an exception of the language-model call is
\* not recovered: no placeholder is produced, the thread runs its exception
\* handler with that error and renders nothing.
C9_OnlyImageErrorsRecovered ==
  \A t \in ThreadIds :
    /\ threads[t].llm_raised =>
         /\ threads[t].exc = "llm"
         /\ threads[t].pc \in {"except", "set_error", "done"}
         /\ threads[t].slides = NoData
         /\ threads[t].image_paths = << >>
    /\ threads[t].primary_raised =>
         /\ threads[t].pc = "render"
         /\ SubSeq(threads[t].calls, 1, 2) = <<"primary", "fallback">>
         /\ Count(threads[t].calls, "fallback") = 1
    /\ (threads[t].pc = "done" /\ threads[t].exc # ""
          /\ \A u \in ThreadIds \ {t} : threads[u].pc = "unborn")
         => /\ tasks[threads[t].task_id].status = "failed"
            /\ tasks[threads[t].task_id].error = threads[t].exc

\* One thread failed because the language-model call raised; another thread
\* got an image through the fallback transport.
C9_Witness ==
  /\ \E t \in ThreadIds :
       /\ threads[t].llm_raised
       /\ threads[t].pc = "done"
       /\ tasks[threads[t].task_id].status = "failed"
       /\ tasks[threads[t].task_id].error = "llm"
  /\ \E t \in ThreadIds :
       /\ threads[t].primary_raised
       /\ Len(threads[t].image_paths) > 0

\* C10: under fair scheduling every record that is Pending or Processing
\* eventually is Completed or Failed, and every thread in which an exception was
\* raised sets its record to Failed and then stores the error text in it.
C10_EventuallyTerminal ==
  /\ \A id \in TaskIds :
       (tasks[id].status \in {"pending", "processing"}) ~> (tasks[id].status \in Terminal)
  /\ \A t \in ThreadIds :
       /\ (threads[t].pc = "except") ~> (RecordOf(t).status = "failed")
       /\ (threads[t].pc = "except")
            ~> (RecordOf(t).has_error /\ RecordOf(t).error = threads[t].exc)

\* A thread raised while rendering, and its record is Failed with that error.
C10_Witness ==
  \E t \in ThreadIds :
    /\ threads[t].pc = "done"
    /\ threads[t].exc = "get"
    /\ tasks[threads[t].task_id].status = "failed"
    /\ tasks[threads[t].task_id].has_error
    /\ tasks[threads[t].task_id].error = "get"

\* create_ppt_from_images returned: slides_data was None or a list of slide
\* dicts and the presentation library worked.
DeckBuilt ==
  /\ dk.pc = "done"
  /\ dk.writer_ok
  /\ dk.slides_data.kind # "object"

\* The deck the same call builds when every supplied path exists.
FullDeck ==
  create_ppt_from_images(dk.image_paths, "ppt", dk.slides_data,
                         ImageFiles(Len(dk.image_paths)), TRUE).deck

\* C11: the deck holds one slide for each supplied path that exists, in the
\* given order; a missing path is skipped without raising and the slides of the
\* other paths are what they are when no path is missing; when all paths exist
\* the deck has as many slides as paths.
C11_DeckFollowsExistingImages ==
  DeckBuilt =>
    /\ ~dk.result.raised
    /\ [j \in 1..Len(dk.result.deck) |-> dk.result.deck[j].bg]
         = SelectSeq(dk.image_paths, LAMBDA f : f \in dk.exists)
    /\ dk.result.deck = SelectSeq(FullDeck, LAMBDA sl : sl.bg \in dk.exists)
    /\ dk.exists = ImageFiles(Len(dk.image_paths))
         => Len(dk.result.deck) = Len(dk.image_paths)

\* Of MaxImages paths the second is missing: the deck skips it.
C11_Witness ==
  /\ DeckBuilt
  /\ Len(dk.image_paths) = MaxImages
  /\ dk.exists = ImageFiles(MaxImages) \ {ImageList(MaxImages)[2]}
  /\ Len(dk.result.deck) = MaxImages - 1
  /\ dk.result.deck[2].bg = ImageList(MaxImages)[3]

\* A run whose outline is an array of slide records.
PipeRun == pl.th.pc # "unborn" /\ pl.outline.kind = "array"

\* A run that produced a deck.
PipeBuilt == PipeRun /\ pl.th.pc = "assembled"

\* C12: in every deck the pipeline produces, the first slide is laid out as
\* cover, the last slide as closing, and every slide strictly between them as
\* content -- also when some images failed or were skipped, and in a deck of
\* one slide.
C12_CoverContentClosing ==
  (PipeBuilt /\ Len(pl.deck) > 0) =>
    /\ pl.deck[1].layout = "cover"
    /\ pl.deck[Len(pl.deck)].layout = "ending"
    /\ \A j \in 2..(Len(pl.deck) - 1) : pl.deck[j].layout = "content"

\* Positions of the slides whose render gave a file, in order.
Rendered == SelectSeq([p \in 1..Len(pl.attempts) |-> p],
                      LAMBDA p : pl.attempts[p].path # NoPath)

\* C13: the render loop visits the slide records in order; the list it builds
\* is exactly the in-order list of the paths of the slides with a non-empty
\* prompt whose render gave a file; a record carries image_path exactly when
\* its own render gave a file; and neither an empty prompt nor a failed render
\* stops the loop before the last record.
C13_BatchRenderPartialSuccess ==
  PipeRun =>
    LET th == pl.th
        n == Len(th.slides.items)
    IN /\ th.exc \notin {"get", "image"}
       /\ Len(pl.attempts) = th.i
       /\ th.pc # "render" => th.i = n
       /\ th.image_paths = [j \in 1..Len(Rendered) |-> pl.attempts[Rendered[j]].path]
       /\ \A pos \in 1..n :
            /\ pos <= th.i => th.slides.items[pos].image_path = pl.attempts[pos].path
            /\ pos > th.i => th.slides.items[pos].image_path = NoPath
       /\ \A pos \in 1..th.i :
            pl.attempts[pos].path # NoPath => pl.outline.items[pos].image_prompt # ""

C13_Witness ==
  /\ PipeBuilt
  /\ pl.mode = "cli"
  /\ Len(pl.outline.items) = 3
  /\ pl.outline.items[2].image_prompt = ""
  /\ pl.attempts[1].called /\ pl.attempts[1].path = NoPath
  /\ ~pl.attempts[2].called
  /\ pl.attempts[3].path # NoPath
  /\ pl.th.image_paths = <<pl.attempts[3].path>>
  /\ pl.th.slides.items[3].image_path = pl.attempts[3].path

\* _save_base64_image returned a path for a decodable payload.
Saved == sv.pc = "done" /\ sv.payload.decodable /\ sv.write_ok

\* C14: a decodable payload whose bytes begin FF D8 FF is saved as <stem>.jpg,
\* every other decodable payload as <stem>.png, with or without a data-URL
\* prefix; the path returned is the images directory joined with the stem and
\* that extension (the file write succeeding).
C14_ExtensionBySignature ==
  Saved =>
    LET b == sv.payload.bytes
        jpeg == Len(b) >= 3 /\ b[1] = 255 /\ b[2] = 216 /\ b[3] = 255
    IN /\ ~sv.result.raised
       /\ sv.result.path = <<sv.stem[1], sv.stem[2], IF jpeg THEN "jpg" ELSE "png">>

C14_Witness ==
  /\ Saved
  /\ sv.payload.data_url
  /\ sv.payload.bytes = <<255, 216, 255>>
  /\ sv.stem = <<"t1", 2>>
  /\ sv.result.path = <<"t1", 2, "jpg">>

\* C16: in every deck of the pipeline, the title and content of deck slide j
\* are those of the slide record whose prompt produced the background of deck
\* slide j, also after an earlier slide failed or had no prompt.
C16_TextOverOwnBackground ==
  PipeBuilt =>
    /\ Len(pl.deck) = Len(Rendered)
    /\ \A j \in 1..Len(pl.deck) :
         /\ pl.deck[j].bg = pl.attempts[Rendered[j]].path
         /\ pl.deck[j].title = pl.outline.items[Rendered[j]].title
         /\ pl.deck[j].content = pl.outline.items[Rendered[j]].content

\* C17: render and assembly leave slide_number, title, content and
\* image_prompt of every slide record, and the number and order of records,
\* as the outline stage returned them; the one change is image_path, set by
\* the render of that record; the styled prompt goes to the image model only.
C17_OnlyImagePathAttached ==
  PipeRun =>
    /\ Len(pl.th.slides.items) = Len(pl.outline.items)
    /\ \A pos \in 1..Len(pl.outline.items) :
         LET now == pl.th.slides.items[pos]
             was == pl.outline.items[pos]
         IN /\ now.dict = was.dict
            /\ now.slide_number = was.slide_number
            /\ now.title = was.title
            /\ now.content = was.content
            /\ now.image_prompt = was.image_prompt
            /\ now.image_path # was.image_path =>
                 pos <= Len(pl.attempts) /\ now.image_path = pl.attempts[pos].path
    /\ \A pos \in 1..Len(pl.attempts) :
         pl.attempts[pos].called =>
           pl.attempts[pos].sent = StyledPrompt(pl.outline.items[pos].image_prompt, pl.style)

C17_Witness ==
  /\ PipeBuilt
  /\ pl.mode = "service"
  /\ pl.style = "s"
  /\ Len(pl.outline.items) = 3
  /\ pl.attempts[1].sent = "p, s design style"
  /\ pl.th.slides.items[1].image_path # NoPath
  /\ pl.th.slides.items[1].image_prompt = "p"
  /\ Len(pl.deck) = 3

\* Indices of the log entries of the render stage.
RenderEntries == {k \in 1..Len(pl.log) : pl.log[k].stage = "render"}

C15_ErrorTaxonomy ==
  [][http' # http =>
       /\ http'.code \in {200, 400, 404}
       /\ http'.code # 200 => tasks' = tasks /\ threads' = threads
       /\ (http'.op = "generate" /\ http'.code = 200) => threads' # threads
       /\ (http'.op = "status" /\ http'.code = 404)
            => \E id \in TaskIds : tasks[id].status = "absent"
       /\ (http'.op = "download" /\ http'.code = 200)
            => \E id \in TaskIds :
                 /\ tasks[id].status = "completed" /\ tasks[id].has_result
                 /\ decks[id].exists
       /\ (http'.op = "download" /\ http'.code = 400)
            => \E id \in TaskIds : tasks[id].status \notin {"absent", "completed"}
       /\ (http'.op = "download" /\ http'.code = 404)
            => \E id \in TaskIds :
                 \/ tasks[id].status = "absent"
                 \/ tasks[id].status = "completed" /\ ~decks[id].exists]_vars

\* C19: no two started threads write the same record of the task table, and
\* so no accepted request replaces the record of a started task.
C19_OneWriterPerRecord ==
  \A t \in ThreadIds, u \in ThreadIds :
    (t # u /\ threads[t].pc # "unborn" /\ threads[u].pc # "unborn")
      => threads[t].task_id # threads[u].task_id

====
